---------------------------- MODULE Spec2Model ----------------------------
(***************************************************************************)
(* A model of crawdad's bit-parallel free-base search (bpxcheck.rs), of    *)
(* the double-array node encoding (lib.rs) and of the query path of the    *)
(* automaton (trie.rs).                                                    *)
(*                                                                         *)
(* Representation of machine integers.  TLC's integers stop at 2^31 - 1,   *)
(* so a u32 is the record [hi |-> top bit, lo |-> low 31 bits] and a u64   *)
(* word is the set of the positions (0..63) of its one-bits.  Every        *)
(* operation on them is written on that representation bit for bit.        *)
(***************************************************************************)
EXTENDS Naturals, Sequences, FiniteSets

VARIABLES
    bitmap,         \* BPXChecker.bitmap
    bcall,          \* the last call on the bitmap and what it returned
    in_origin,      \* base_origin, the argument of the free-base search
    in_labels,      \* labels, the argument of the free-base search
    in_api,         \* "from_keys" or "from_records"
    in_records,     \* the <<key, value>> records handed to the constructor
    built,          \* what the constructor returned: Result<Trie>
    tcall,          \* the last exact_match call and what it returned
    sc_phase,       \* the scan loop over a text: "idle", "scanning", "done"
    sc_text,        \* the mapped text
    sc_i,           \* the start offset of the current searcher
    searcher,       \* CommonPrefixSearcher: text, text_pos, node_idx
    last,           \* what the last call of next on the searcher returned
    matches         \* the (value, i + end) pairs collected so far

bvars == <<bitmap, bcall, in_origin, in_labels>>

tvars == <<in_api, in_records, built, tcall, sc_phase, sc_text, sc_i, searcher, last, matches>>

vars == <<bvars, tvars>>

---------------------------------------------------------------------------
(* lib.rs constants *)

OFFSET_MASK == 2147483647

END_CODE == 0

(* bpxcheck.rs: BPXChecker::BITS = u64::BITS *)
BITS == 64

---------------------------------------------------------------------------
(* u32 arithmetic *)

U32(h, l) == [hi |-> h, lo |-> l]

INVALID_IDX == U32(1, OFFSET_MASK)

(* a ^ b on naturals below 2^31 *)
RECURSIVE Xor(_, _)
Xor(a, b) ==
    IF a = 0 THEN b
    ELSE IF b = 0 THEN a
    ELSE (((a % 2) + (b % 2)) % 2) + 2 * Xor(a \div 2, b \div 2)

(* a ^ b on u32 *)
U32Xor(a, b) == U32((a.hi + b.hi) % 2, Xor(a.lo, b.lo))

(* label & (1 << i) != 0, for a bit i below 31 *)
TestBit(a, i) == (a.lo \div (2 ^ i)) % 2 = 1

---------------------------------------------------------------------------
(* u64 words as sets of bit positions *)

BitPos == 0 .. (BITS - 1)

(* (OFFSET_MASK >> 6) + 1 = 2^25: the first word index with a bit outside *)
(* OFFSET_MASK >> 6                                                        *)
TopBlock == (OFFSET_MASK \div BITS) + 1

ShiftR(w, n) == {b - n : b \in {c \in w : c >= n}}

ShiftL(w, n) == {b + n : b \in {c \in w : c + n < BITS}}

word_filled_by(bit) == IF bit THEN BitPos ELSE {}

required_word_len(len) == (len \div BITS) + (IF len % BITS = 0 THEN 0 ELSE 1)

(* i / 64 of a u32: a natural below 2^26 *)
word_index(i) == i.hi * TopBlock + (i.lo \div BITS)

word_offset(i) == i.lo % BITS

index_pair(i) == <<word_index(i), word_offset(i)>>

(* Vec<u64> kept sparsely: its length in words and the <<word, bit>> pairs *)
(* that are one                                                            *)
new(len) == [len |-> required_word_len(len), fixed |-> {}]

WordAt(bm, q) == {p[2] : p \in {f \in bm.fixed : f[1] = q}}

get_word_NoInvalidGuard(bm, wi) ==
    IF wi >= bm.len THEN word_filled_by(FALSE) ELSE WordAt(bm, wi)

get_word_LenIsOccupied(bm, wi) ==
    IF wi \div TopBlock # 0 THEN word_filled_by(TRUE)
    ELSE IF wi >= bm.len THEN word_filled_by(TRUE)
    ELSE WordAt(bm, wi)

(* wi & !(OFFSET_MASK >> 6) != 0  <=>  wi has a bit at or above bit 25 *)
get_word(bm, wi) ==
    IF wi \div TopBlock # 0 THEN word_filled_by(TRUE)
    ELSE IF wi >= bm.len THEN word_filled_by(FALSE)
    ELSE WordAt(bm, wi)

is_fixed(bm, i) == word_offset(i) \in get_word(bm, word_index(i))

CanSetFixed(bm, i) == word_index(i) < bm.len

(* bitmap[q] |= 1 << r; indexing past the end of the Vec panics *)
set_fixed(bm, i) == [bm EXCEPT !.fixed = @ \cup {index_pair(i)}]

resize_Clear(bm, new_len) == new(new_len)

(* Vec::resize: truncates when shorter, appends zero words when longer *)
resize(bm, new_len) ==
    [len   |-> required_word_len(new_len),
     fixed |-> {f \in bm.fixed : f[1] < required_word_len(new_len)}]

(* BLOCK_MASKS[i]: the bits whose position has bit i clear *)
(* (0x5555.., 0x3333.., 0x0F0F.., 0x00FF.., 0x0000FFFF.., 0x00000000FFFFFFFF) *)
BLOCK_MASKS == [i \in 0 .. 5 |-> {b \in BitPos : (b \div (2 ^ i)) % 2 = 0}]

NO_CANDIDATE == word_filled_by(TRUE)

(* ((w >> width) & MASK[i]) | ((w & MASK[i]) << width), width = 1 << i *)
BlockSwap(w, i) ==
    (ShiftR(w, 2 ^ i) \cap BLOCK_MASKS[i]) \cup ShiftL(w \cap BLOCK_MASKS[i], 2 ^ i)

RECURSIVE BlockwiseSwap(_, _, _)
BlockwiseSwap(w, label, i) ==
    IF i >= 5 THEN w
    ELSE BlockwiseSwap(IF TestBit(label, i) THEN BlockSwap(w, i) ELSE w, label, i + 1)

(* (w >> 32) | (w << 32) *)
HalfSwap(w) == ShiftR(w, 32) \cup ShiftL(w, 32)

Permute_NoHalfSwap(w, label) == BlockwiseSwap(w, label, 0)

(* the body of the loop over labels before the merge *)
Permute(w, label) ==
    IF TestBit(label, 5)
    THEN HalfSwap(BlockwiseSwap(w, label, 0))
    ELSE BlockwiseSwap(w, label, 0)

RECURSIVE MaskLoop(_, _, _, _, _)
(* x |= w; if x == NO_CANDIDATE { break; } *)
MaskMerge(bm, base_front, labels, k, x) ==
    IF x = NO_CANDIDATE THEN x ELSE MaskLoop(bm, base_front, labels, k + 1, x)

(* for &label in labels, from the k-th label on, with accumulator x *)
MaskLoop(bm, base_front, labels, k, x) ==
    IF k > Len(labels) THEN x
    ELSE MaskMerge(bm, base_front, labels, k,
                   x \cup Permute(get_word(bm, word_index(U32Xor(base_front, labels[k]))),
                                  labels[k]))

disabled_base_mask(bm, base_front, labels) == MaskLoop(bm, base_front, labels, 1, {})

(* base_origin & BASE_FRONT_MASK *)
BaseFront(base_origin) == U32(base_origin.hi, base_origin.lo - (base_origin.lo % BITS))

trailing_ones(x) == CHOOSE n \in 0 .. BITS : n \notin x /\ \A m \in 0 .. (n - 1) : m \in x

Candidate_First(base_front, x) ==
    IF x # NO_CANDIDATE THEN base_front ELSE INVALID_IDX

(* if x != NO_CANDIDATE { base_front ^ x.trailing_ones() } else { INVALID_IDX } *)
Candidate(base_front, x) ==
    IF x # NO_CANDIDATE
    THEN U32Xor(base_front, U32(0, trailing_ones(x)))
    ELSE INVALID_IDX

find_base_for_64adjacent(bm, base_origin, labels) ==
    Candidate(BaseFront(base_origin),
              disabled_base_mask(bm, BaseFront(base_origin), labels))

---------------------------------------------------------------------------
(* lib.rs: Node.  base and check are u32: the low 31 bits are the value,   *)
(* the top bit is the leaf / has-leaf flag.                                *)

Node(b, c) == [base |-> b, check |-> c]

Node_get_base(nd) == nd.base.lo

Node_get_check(nd) == nd.check.lo

Node_is_leaf(nd) == nd.base.hi # 0

Node_has_leaf(nd) == nd.check.hi # 0

Node_is_vacant(nd) == nd.base = U32(0, OFFSET_MASK) /\ nd.check = U32(0, OFFSET_MASK)

---------------------------------------------------------------------------
(* trie.rs: the query path.  A trie is [mapper, nodes]; nodes is a         *)
(* function on 0 .. len - 1.  Option values carry a tag; the tag "Fault"   *)
(* stands for a panic: an index past the end of nodes, or a debug_assert   *)
(* that fails (the debug build; the release build skips the assertions     *)
(* and faults only on the index).                                          *)

None == [tag |-> "None", val |-> 0]

Some(v) == [tag |-> "Some", val |-> v]

Fault == [tag |-> "Fault", val |-> 0]

InTable(t, idx) == idx \in DOMAIN t.nodes

(* CodeMapper::get *)
mapper_get(t, c) == IF c \in DOMAIN t.mapper THEN Some(t.mapper[c]) ELSE None

get_base(t, node_idx) == Node_get_base(t.nodes[node_idx])

get_check(t, node_idx) == Node_get_check(t.nodes[node_idx])

is_leaf(t, node_idx) == Node_is_leaf(t.nodes[node_idx])

has_leaf(t, node_idx) == Node_has_leaf(t.nodes[node_idx])

(* if self.get_check(child_idx) == node_idx { Some(child_idx) } else { None } *)
CheckedChild(t, node_idx, child_idx) ==
    IF ~InTable(t, child_idx) THEN Fault
    ELSE IF get_check(t, child_idx) = node_idx THEN Some(child_idx)
    ELSE None

get_child_idx_NoLeafGuard(t, node_idx, mc) ==
    CheckedChild(t, node_idx, Xor(get_base(t, node_idx), mc))

get_child_idx(t, node_idx, mc) ==
    IF is_leaf(t, node_idx) THEN None
    ELSE CheckedChild(t, node_idx, Xor(get_base(t, node_idx), mc))

(* debug_assert_eq!(self.get_check(leaf_idx), node_idx) *)
AssertedLeaf(t, node_idx, leaf_idx) ==
    IF ~InTable(t, leaf_idx) THEN Fault
    ELSE IF get_check(t, leaf_idx) # node_idx THEN Fault
    ELSE Some(leaf_idx)

(* Option<u32>: the leaf index, or Fault when the read of check(leaf_idx)  *)
(* is out of the table or the debug_assert fails                           *)
get_leaf_idx(t, node_idx) == AssertedLeaf(t, node_idx, Xor(get_base(t, node_idx), END_CODE))

get_value(t, node_idx) ==
    IF ~InTable(t, node_idx) THEN Fault
    ELSE IF ~is_leaf(t, node_idx) THEN Fault
    ELSE Some(Node_get_base(t.nodes[node_idx]))

(* self.get_value(l) for l = self.get_leaf_idx(node_idx) *)
ValueAt(t, l) == IF l.tag = "Fault" THEN Fault ELSE get_value(t, l.val)

(* the value at the synthetic leaf of node_idx *)
LeafValue(t, node_idx) == ValueAt(t, get_leaf_idx(t, node_idx))

ExactTail_NoHasLeaf(t, node_idx) ==
    IF is_leaf(t, node_idx) THEN get_value(t, node_idx) ELSE None

(* the tail of exact_match, after the loop over the characters *)
ExactTail(t, node_idx) ==
    IF is_leaf(t, node_idx) THEN get_value(t, node_idx)
    ELSE IF has_leaf(t, node_idx) THEN LeafValue(t, node_idx)
    ELSE None

RECURSIVE ExactLoop(_, _, _, _)
(* if let Some(child_idx) = ... { node_idx = child_idx } else { return None } *)
ExactChild(t, key, k, child) ==
    IF child.tag = "Some" THEN ExactLoop(t, key, k + 1, child.val) ELSE child

(* if let Some(mc) = self.mapper.get(c) { ... } else { return None } *)
ExactChar(t, key, k, node_idx, mc) ==
    IF mc.tag = "None" THEN None
    ELSE ExactChild(t, key, k, get_child_idx(t, node_idx, mc.val))

(* for c in key.chars(), from the k-th character on *)
ExactLoop(t, key, k, node_idx) ==
    IF k > Len(key) THEN ExactTail(t, node_idx)
    ELSE ExactChar(t, key, k, node_idx, mapper_get(t, key[k]))

exact_match(t, key) == ExactLoop(t, key, 1, 0)

map_text(t, str) == [k \in 1 .. Len(str) |-> mapper_get(t, str[k])]

common_prefix_searcher(txt) == [text |-> txt, text_pos |-> 0, node_idx |-> 0]

Match(e, v) == [end |-> e, value |-> v]

(* what CommonPrefixSearcher::next returns and the searcher it leaves *)
Step(it, s) == [item |-> it, searcher |-> s]

Exhaust_Skip(s) == [s EXCEPT !.text_pos = @ + 1]

(* self.text_pos = self.text.len() *)
Exhaust(s) == [s EXCEPT !.text_pos = Len(s.text)]

(* Some(Match { end, value }) with the value read from the table *)
Yield(s, e, v) == Step(IF v.tag = "Fault" THEN Fault ELSE Some(Match(e, v.val)), s)

AfterMove_StopAtHasLeaf(t, s) ==
    IF is_leaf(t, s.node_idx)
    THEN Yield(Exhaust(s), s.text_pos, get_value(t, s.node_idx))
    ELSE IF has_leaf(t, s.node_idx)
    THEN Yield(Exhaust(s), s.text_pos, LeafValue(t, s.node_idx))
    ELSE Step(None, s)

(* the part of the loop body of next after the transition to node_idx and  *)
(* the increment of text_pos; the item None stands for "go on with the     *)
(* loop"                                                                   *)
AfterMove(t, s) ==
    IF is_leaf(t, s.node_idx)
    THEN Yield(Exhaust(s), s.text_pos, get_value(t, s.node_idx))
    ELSE IF has_leaf(t, s.node_idx)
    THEN Yield(s, s.text_pos, LeafValue(t, s.node_idx))
    ELSE Step(None, s)

RECURSIVE next(_, _)
(* return the match, or go round the while loop again *)
NextRound(t, r) == IF r.item.tag = "None" THEN next(t, r.searcher) ELSE r

(* if let Some(child_idx) = self.trie.get_child_idx(self.node_idx, mc) *)
NextChild(t, s, child) ==
    IF child.tag = "None" THEN Step(None, Exhaust(s))
    ELSE IF child.tag = "Fault" THEN Step(Fault, s)
    ELSE NextRound(t, AfterMove(t, [s EXCEPT !.node_idx = child.val, !.text_pos = @ + 1]))

(* if let Some(mc) = self.text[self.text_pos] *)
NextChar(t, s, mc) ==
    IF mc.tag = "None" THEN Step(None, Exhaust(s))
    ELSE NextChild(t, s, get_child_idx(t, s.node_idx, mc.val))

next(t, s) ==
    IF s.text_pos >= Len(s.text) THEN Step(None, s)
    ELSE NextChar(t, s, s.text[s.text_pos + 1])

---------------------------------------------------------------------------
(* The Builder and the CodeMapper (builder.rs and mapper.rs are not part   *)
(* of the sources at hand; modelled from sections 3, 4.2 and 7 of the      *)
(* specification).  Records are <<key, value>> pairs, a key is a sequence  *)
(* of characters, a character is a natural number.                         *)

RECURSIVE KeyLess(_, _)
KeyLess(a, b) ==
    IF b = <<>> THEN FALSE
    ELSE IF a = <<>> THEN TRUE
    ELSE IF Head(a) # Head(b) THEN Head(a) < Head(b)
    ELSE KeyLess(Tail(a), Tail(b))

(* the error of the record at position k, given the records before it *)
RecordError(records, k) ==
    IF records[k][1] = <<>> THEN "EmptyKey"
    ELSE IF k > 1 /\ records[k][1] = records[k - 1][1] THEN "DuplicateKey"
    ELSE IF k > 1 /\ KeyLess(records[k][1], records[k - 1][1]) THEN "UnsortedInput"
    ELSE "Ok"

(* the first error met in one pass over the input *)
InputError(records) ==
    IF records = <<>> THEN "EmptyInput"
    ELSE LET bad == {k \in 1 .. Len(records) : RecordError(records, k) # "Ok"}
         IN  IF bad = {} THEN "Ok"
             ELSE RecordError(records, CHOOSE k \in bad : \A j \in bad : k <= j)

(* dense codes 1, 2, ... in the order of the characters; END_CODE = 0 is   *)
(* never the code of a character                                           *)
BuildMapper(records) ==
    LET chars == UNION {{records[k][1][j] : j \in 1 .. Len(records[k][1])}
                            : k \in 1 .. Len(records)}
    IN  [c \in chars |-> 1 + Cardinality({d \in chars : d < c})]

RECURSIVE SortedSeq(_)
SortedSeq(S) ==
    IF S = {} THEN <<>>
    ELSE LET m == CHOOSE x \in S : \A y \in S : x <= y
         IN  <<m>> \o SortedSeq(S \ {m})

VacantNode == Node(U32(0, OFFSET_MASK), U32(0, OFFSET_MASK))

(* the Node Table and the bitmap are created together, one 64-slot block,  *)
(* with the root at index 0 marked occupied                                *)
InitArray ==
    [nodes |-> [i \in 0 .. (BITS - 1) |-> VacantNode],
     xc    |-> set_fixed(new(BITS), U32(0, 0))]

TableLen(st) == Cardinality(DOMAIN st.nodes)

(* grow the Node Table and the bitmap in lock-step, one block at a time,   *)
(* until index need is inside                                              *)
RECURSIVE Enlarge(_, _)
Enlarge(st, need) ==
    IF need < TableLen(st) THEN st
    ELSE Enlarge([nodes |-> [i \in 0 .. (TableLen(st) + BITS - 1) |->
                                IF i < TableLen(st) THEN st.nodes[i] ELSE VacantNode],
                  xc    |-> resize(st.xc, TableLen(st) + BITS)],
                 need)

RECURSIVE SelectBase(_, _, _)
(* the base of this window, or the search in the next one *)
SelectOrAdvance(xc, lbls, origin, b) ==
    IF b # INVALID_IDX THEN b.lo ELSE SelectBase(xc, lbls, origin + BITS)

(* select_base at successive 64-aligned windows until one has a candidate *)
SelectBase(xc, lbls, origin) ==
    SelectOrAdvance(xc, lbls, origin, find_base_for_64adjacent(xc, U32(0, origin), lbls))

(* write check(child) = parent and mark the child occupied, for each label *)
RECURSIVE CommitChildren(_, _, _, _, _)
CommitChildren(st, parent, base, lbls, k) ==
    IF k > Len(lbls) THEN st
    ELSE CommitChildren(
             [nodes |-> [st.nodes EXCEPT ![Xor(base, lbls[k].lo)].check = U32(0, parent)],
              xc    |-> set_fixed(st.xc, U32(0, Xor(base, lbls[k].lo)))],
             parent, base, lbls, k + 1)

(* does the first record of the item end at this node? *)
Ends(records, item) == Len(records[item.lo][1]) = item.depth

(* the records of the item that go on below this node *)
Below(records, item) == (IF Ends(records, item) THEN item.lo + 1 ELSE item.lo) .. item.hi

ChildChars(records, item) == {records[k][1][item.depth + 1] : k \in Below(records, item)}

(* the labels of the node, ascending: END_CODE first when a key ends here  *)
(* and others go on                                                        *)
Labels(mapper, records, item) ==
    (IF Ends(records, item) THEN <<U32(0, END_CODE)>> ELSE <<>>)
        \o [k \in 1 .. Cardinality(ChildChars(records, item)) |->
               U32(0, SortedSeq({mapper[c] : c \in ChildChars(records, item)})[k])]

(* the largest child index of base *)
TopChild(base, lbls) ==
    CHOOSE m \in {Xor(base, lbls[k].lo) : k \in 1 .. Len(lbls)} :
        \A k \in 1 .. Len(lbls) : Xor(base, lbls[k].lo) <= m

(* the records of the item whose next character is c *)
Group(records, item, c) ==
    {k \in Below(records, item) : records[k][1][item.depth + 1] = c}

ChildItem(mapper, records, item, base, c) ==
    [node  |-> Xor(base, mapper[c]),
     lo    |-> CHOOSE i \in Group(records, item, c) : \A j \in Group(records, item, c) : i <= j,
     hi    |-> CHOOSE i \in Group(records, item, c) : \A j \in Group(records, item, c) : i >= j,
     depth |-> item.depth + 1]

ChildItems(mapper, records, item, base) ==
    [k \in 1 .. Cardinality(ChildChars(records, item)) |->
        ChildItem(mapper, records, item, base, SortedSeq(ChildChars(records, item))[k])]

(* a leaf holds its value in base, with the leaf flag *)
SetLeaf(st, idx, value) == [st EXCEPT !.nodes[idx].base = U32(1, value)]

(* the base of an inner node, and its has-leaf flag *)
SetBase(st, idx, base, flag) ==
    [st EXCEPT !.nodes[idx].base = U32(0, base),
               !.nodes[idx].check = U32(IF flag THEN 1 ELSE 0, @.lo)]

(* the synthetic leaf at base ^ END_CODE, when a key ends at the node *)
SetSyntheticLeaf(st, records, item, base) ==
    IF Ends(records, item)
    THEN SetLeaf(st, Xor(base, END_CODE), records[item.lo][2])
    ELSE st

(* commit the node at the selected base: grow the table, link the          *)
(* children, write the base, place the synthetic leaf                      *)
Place(st, mapper, records, item, lbls, base) ==
    [st    |-> SetSyntheticLeaf(
                   SetBase(CommitChildren(Enlarge(st, TopChild(base, lbls)),
                                          item.node, base, lbls, 1),
                           item.node, base, Ends(records, item)),
                   records, item, base),
     items |-> ChildItems(mapper, records, item, base)]

PlaceAtFreeBase(st, mapper, records, item, lbls) ==
    Place(st, mapper, records, item, lbls, SelectBase(st.xc, lbls, 0))

(* the node at index item.node stands for the prefix of length item.depth  *)
(* shared by the records item.lo .. item.hi                                *)
Arrange(st, mapper, records, item) ==
    IF Ends(records, item) /\ item.lo = item.hi
    THEN [st |-> SetLeaf(st, item.node, records[item.lo][2]), items |-> <<>>]
    ELSE PlaceAtFreeBase(st, mapper, records, item, Labels(mapper, records, item))

(* the explicit node stack *)
RECURSIVE BuildLoop(_, _, _, _)
BuildStep(r, mapper, records, rest) == BuildLoop(r.st, mapper, records, r.items \o rest)

BuildLoop(st, mapper, records, stack) ==
    IF stack = <<>> THEN st
    ELSE BuildStep(Arrange(st, mapper, records, Head(stack)), mapper, records, Tail(stack))

NoTrie == [mapper |-> <<>>, nodes |-> <<>>]

Finished(mapper, st) == [err |-> "Ok", mapper |-> mapper, nodes |-> st.nodes]

BuildWith(records, mapper) ==
    Finished(mapper,
             BuildLoop(InitArray, mapper, records,
                       <<[node |-> 0, lo |-> 1, hi |-> Len(records), depth |-> 0]>>))

BuildChecked(records, err) ==
    IF err # "Ok"
    THEN [err |-> err, mapper |-> <<>>, nodes |-> <<>>]
    ELSE BuildWith(records, BuildMapper(records))

(* Builder::build_from_records: the error, or the builder holding the      *)
(* finished Node Table                                                     *)
build_from_records(records) == BuildChecked(records, InputError(records))

(* Builder::build_from_keys: the value of a key is its rank *)
build_from_keys(keys) == build_from_records([k \in 1 .. Len(keys) |-> <<keys[k], k - 1>>])

(* Builder::release_trie *)
release_trie(b) == [ok |-> TRUE, err |-> "Ok", trie |-> [mapper |-> b.mapper, nodes |-> b.nodes]]

---------------------------------------------------------------------------
(* trie.rs: Trie::from_keys and Trie::from_records.  The ? operator        *)
(* returns the error of the builder before release_trie is reached.        *)

Err(e) == [ok |-> FALSE, err |-> e, trie |-> NoTrie]

(* b?.release_trie() *)
TryRelease(b) == IF b.err # "Ok" THEN Err(b.err) ELSE release_trie(b)

from_keys_IgnoreError(keys) == release_trie(build_from_keys(keys))

from_keys(keys) == TryRelease(build_from_keys(keys))

from_records(records) == TryRelease(build_from_records(records))

---------------------------------------------------------------------------
(* The state before any constructor or query call *)

NotBuilt == [ok |-> FALSE, err |-> "NotBuilt", trie |-> NoTrie]

NoQuery == [op |-> "none", arg |-> <<>>, ret |-> None]

Fresh == [tag |-> "Fresh", val |-> 0]

NoScan ==
    /\ sc_phase = "idle"
    /\ sc_text = <<>>
    /\ sc_i = 0
    /\ searcher = common_prefix_searcher(<<>>)
    /\ last = Fresh
    /\ matches = <<>>

NoTrieState ==
    /\ in_api = "from_keys"
    /\ in_records = <<>>
    /\ built = NotBuilt
    /\ tcall = NoQuery
    /\ NoScan

---------------------------------------------------------------------------
(* The bitmap as an object: BPXChecker::default(), then any sequence of    *)
(* resize, set_fixed and get_word calls.                                   *)

IdxInputs ==
    {U32(0, 0), U32(0, 5), U32(0, 63), U32(0, 64), U32(0, 130),
     U32(0, OFFSET_MASK), U32(1, 0)}

LenInputs == {0, 1, 64, 65, 192, OFFSET_MASK}

WordInputs == {0, 1, 2, 3, TopBlock - 1, TopBlock, 2 * TopBlock - 1}

NoCall == [op |-> "default", arg |-> 0, ret |-> {}]

InitBitmap ==
    /\ bitmap = new(0)
    /\ bcall = NoCall
    /\ in_origin = U32(0, 0)
    /\ in_labels = <<>>
    /\ NoTrieState

Resize(n) ==
    /\ bcall.op # "panic"
    /\ UNCHANGED <<in_origin, in_labels, tvars>>
    /\ bitmap' = resize(bitmap, n)
    /\ bcall' = [op |-> "resize", arg |-> n, ret |-> {}]

SetFixed(i) ==
    /\ bcall.op # "panic"
    /\ UNCHANGED <<in_origin, in_labels, tvars>>
    /\ IF CanSetFixed(bitmap, i)
       THEN /\ bitmap' = set_fixed(bitmap, i)
            /\ bcall' = [op |-> "set_fixed", arg |-> i, ret |-> {}]
       ELSE /\ bitmap' = bitmap
            /\ bcall' = [op |-> "panic", arg |-> i, ret |-> {}]

GetWord(wi) ==
    /\ bcall.op # "panic"
    /\ UNCHANGED <<in_origin, in_labels, tvars>>
    /\ bitmap' = bitmap
    /\ bcall' = [op |-> "get_word", arg |-> wi, ret |-> get_word(bitmap, wi)]

NextBitmap ==
    \/ \E n \in LenInputs : Resize(n)
    \/ \E i \in IdxInputs : SetFixed(i)
    \/ \E wi \in WordInputs : GetWord(wi)

SpecBitmap == InitBitmap /\ [][NextBitmap]_vars

---------------------------------------------------------------------------
(* The free-base search as a function of the bitmap, the origin and the    *)
(* labels: the inputs are drawn at the start, the two operations are then  *)
(* applied to them.                                                        *)

MaxLabels == 2

(* new(len) followed by set_fixed(i) for every i of slots *)
Marked(len, slots) == [len |-> required_word_len(len),
                       fixed |-> {index_pair(i) : i \in slots}]

(* the occupancy map of tests::test_find_base_for_64adjacent *)
TestMap ==
    <<1,0,0,1,0,0,1,0,1,0,1,0,0,0,1,0,0,0,0,1,0,0,1,0,1,0,0,0,0,0,1,1,
      0,0,0,1,0,1,0,0,0,1,0,1,0,1,0,0,0,0,0,1,0,0,0,0,0,0,0,0,1,0,0,1>>

TestLabels == <<U32(0, 1), U32(0, 3), U32(0, 7), U32(0, 9), U32(0, 11), U32(0, 23), U32(0, 41)>>

TestBitmap == Marked(BITS, {U32(0, i) : i \in {j \in BitPos : TestMap[j + 1] # 0}})

(* three words: the first full, the second with two vacant slots *)
DenseBitmap ==
    Marked(3 * BITS, {U32(0, i) : i \in (0 .. (2 * BITS - 1)) \ {BITS + 5, BITS + 37}})

(* the largest bitmap get_word reads: 2^25 words, the last one with only   *)
(* its top slot (0x7FFFFFFF) vacant                                        *)
TopBitmap ==
    Marked(OFFSET_MASK, {U32(0, OFFSET_MASK - i) : i \in 1 .. (BITS - 1)} \cup {U32(0, 1)})

BitmapInputs == {new(0), TestBitmap, DenseBitmap, TopBitmap}

OriginInputs ==
    {U32(0, 0), U32(0, 7), U32(0, 64), U32(0, 100), U32(0, 192),
     U32(0, OFFSET_MASK - 10), U32(1, 0), U32(1, OFFSET_MASK)}

LabelInputs ==
    {U32(0, 0), U32(0, 1), U32(0, 3), U32(0, 41), U32(0, 98), U32(1, 0), U32(1, 5)}

LabelSeqInputs ==
    UNION {[1 .. n -> LabelInputs] : n \in 0 .. MaxLabels} \cup {TestLabels}

InitBase ==
    /\ bitmap \in BitmapInputs
    /\ in_origin \in OriginInputs
    /\ in_labels \in LabelSeqInputs
    /\ bcall = NoCall
    /\ NoTrieState

(* disabled_base_mask(base_front, labels); debug_assert: base_front % 64 = 0 *)
DisabledBaseMask ==
    /\ in_origin.lo % BITS = 0
    /\ bcall' = [op |-> "disabled_base_mask", arg |-> 0,
                 ret |-> disabled_base_mask(bitmap, in_origin, in_labels)]
    /\ UNCHANGED <<bitmap, in_origin, in_labels, tvars>>

FindBase ==
    /\ bcall' = [op |-> "find_base_for_64adjacent", arg |-> 0,
                 ret |-> find_base_for_64adjacent(bitmap, in_origin, in_labels)]
    /\ UNCHANGED <<bitmap, in_origin, in_labels, tvars>>

NextBase ==
    \/ DisabledBaseMask
    \/ FindBase

SpecBase == InitBase /\ [][NextBase]_vars

(* the brute-force scan: base b is valid when slot b ^ l is vacant for     *)
(* every label l                                                           *)
ValidBase(bm, b, ls) == \A k \in 1 .. Len(ls) : ~is_fixed(bm, U32Xor(b, ls[k]))

WindowBase(origin, i) == U32(origin.hi, (origin.lo - (origin.lo % BITS)) + i)

ValidOffsets(bm, origin, ls) == {i \in BitPos : ValidBase(bm, WindowBase(origin, i), ls)}

Lowest(S) == CHOOSE i \in S : \A j \in S : i <= j

---------------------------------------------------------------------------
(* The automaton: a constructor call on the input, then exact_match calls  *)
(* and scans of a text with one searcher per start offset (the loop of     *)
(* tests::test_common_prefix_search).                                      *)

MaxKeys == 3

MaxTextLen == 3

KeyInputs ==
    {<<>>, <<1>>, <<2>>, <<1, 1>>, <<1, 2>>, <<2, 1>>, <<1, 2, 1>>, <<1, 2, 2>>}

(* the values handed to from_records, by position *)
ValueInputs == <<OFFSET_MASK, 70, 70, 0, OFFSET_MASK - 1>>

KeySeqInputs == UNION {[1 .. n -> KeyInputs] : n \in 0 .. MaxKeys}

(* character 3 occurs in no key *)
QueryInputs ==
    UNION {[1 .. n -> 1 .. 3] : n \in 0 .. 3} \cup {<<1, 2, 1, 1>>, <<1, 2, 2, 2>>}

StrInputs == UNION {[1 .. n -> 1 .. 3] : n \in 0 .. MaxTextLen}

Keys(records) == [k \in 1 .. Len(records) |-> records[k][1]]

InitTrie ==
    /\ bitmap = new(0)
    /\ bcall = NoCall
    /\ in_origin = U32(0, 0)
    /\ in_labels = <<>>
    /\ in_api \in {"from_keys", "from_records"}
    /\ \E keys \in KeySeqInputs :
          in_records = [k \in 1 .. Len(keys) |->
                           <<keys[k], IF in_api = "from_keys" THEN k - 1 ELSE ValueInputs[k]>>]
    /\ built = NotBuilt
    /\ tcall = NoQuery
    /\ NoScan

FromKeys ==
    /\ built = NotBuilt
    /\ in_api = "from_keys"
    /\ built' = from_keys(Keys(in_records))
    /\ UNCHANGED <<bvars, in_api, in_records, tcall, sc_phase, sc_text, sc_i, searcher, last, matches>>

FromRecords ==
    /\ built = NotBuilt
    /\ in_api = "from_records"
    /\ built' = from_records(in_records)
    /\ UNCHANGED <<bvars, in_api, in_records, tcall, sc_phase, sc_text, sc_i, searcher, last, matches>>

ExactMatch(key) ==
    /\ built.ok
    /\ sc_phase = "idle"
    /\ tcall' = [op |-> "exact_match", arg |-> key, ret |-> exact_match(built.trie, key)]
    /\ UNCHANGED <<bvars, in_api, in_records, built, sc_phase, sc_text, sc_i, searcher, last, matches>>

(* &mapped[i..] *)
Slice(txt, i) == [k \in 1 .. (Len(txt) - i) |-> txt[k + i]]

(* map_text, then the first iteration of for i in 0..mapped.len() *)
MapText(str) ==
    /\ built.ok
    /\ sc_phase = "idle"
    /\ tcall = NoQuery
    /\ sc_text' = map_text(built.trie, str)
    /\ sc_i' = 0
    /\ sc_phase' = IF Len(str) = 0 THEN "done" ELSE "scanning"
    /\ searcher' = common_prefix_searcher(map_text(built.trie, str))
    /\ last' = Fresh
    /\ matches' = <<>>
    /\ UNCHANGED <<bvars, in_api, in_records, built, tcall>>

(* matches.push((m.value(), i + m.end())) *)
Returned(r) ==
    /\ searcher' = r.searcher
    /\ last' = r.item
    /\ matches' = IF r.item.tag = "Some"
                  THEN Append(matches, <<r.item.val.value, sc_i + r.item.val.end>>)
                  ELSE matches

(* one call of next on the current searcher; a match is pushed *)
CallNext ==
    /\ sc_phase = "scanning"
    /\ last.tag # "Fault"
    /\ Returned(next(built.trie, searcher))
    /\ UNCHANGED <<bvars, in_api, in_records, built, tcall, sc_phase, sc_text, sc_i>>

(* the inner for loop ended on None: the next start offset *)
NextOffset ==
    /\ sc_phase = "scanning"
    /\ last.tag = "None"
    /\ sc_i' = sc_i + 1
    /\ sc_phase' = IF sc_i + 1 = Len(sc_text) THEN "done" ELSE "scanning"
    /\ searcher' = common_prefix_searcher(Slice(sc_text, sc_i + 1))
    /\ last' = Fresh
    /\ UNCHANGED <<bvars, in_api, in_records, built, tcall, sc_text, matches>>

NextTrie ==
    \/ FromKeys
    \/ FromRecords
    \/ \E key \in QueryInputs : ExactMatch(key)
    \/ \E str \in StrInputs : MapText(str)
    \/ CallNext
    \/ NextOffset

SpecTrie == InitTrie /\ [][NextTrie]_vars

---------------------------------------------------------------------------
(* Claims about the bitmap object, checked under SpecBitmap *)

(* C5 as stated: get_word returns the all-ones word for every block index  *)
(* at or beyond the length of the word array.                              *)
C5_BeyondLengthIsAllOnes ==
    (bcall.op = "get_word" /\ bcall.arg >= bitmap.len)
        => bcall.ret = word_filled_by(TRUE)

(* C5 amended: get_word returns the all-ones word exactly for the block    *)
(* indices at or above 2^25 (slots outside the 31-bit index domain); for a *)
(* block index below 2^25 that is at or beyond the length of the word      *)
(* array it returns the all-zeros word, so an unallocated slot is reported *)
(* vacant.                                                                 *)
C5_InvalidIsAllOnesUnallocatedIsVacant ==
    bcall.op = "get_word" =>
        /\ bcall.arg >= TopBlock => bcall.ret = word_filled_by(TRUE)
        /\ (bcall.arg < TopBlock /\ bcall.arg >= bitmap.len)
               => bcall.ret = word_filled_by(FALSE)
        /\ \A i \in IdxInputs :
               (word_index(i) < TopBlock /\ word_index(i) >= bitmap.len)
                   => ~is_fixed(bitmap, i)

C5_Witness ==
    /\ bcall.op = "get_word"
    /\ bcall.arg >= bitmap.len
    /\ bcall.arg < TopBlock
    /\ bitmap.fixed # {}
    /\ bcall.ret = {}

(* C6 as stated: whatever the arguments, a slot that is fixed before a     *)
(* set_fixed or resize call is fixed after it.                             *)
C6_FixedStaysFixed ==
    [][\A i \in IdxInputs : is_fixed(bitmap, i) => is_fixed(bitmap', i)]_vars

(* C6 amended: a fixed slot is still fixed after every set_fixed call and  *)
(* after every resize call whose new word length still covers the slot's   *)
(* word; a resize to a shorter length drops the words beyond it together   *)
(* with their fixed bits.                                                  *)
C6_FixedStaysFixedWhileCovered ==
    [][\A i \in IdxInputs :
          /\ (is_fixed(bitmap, i) /\ word_index(i) < bitmap'.len)
                 => is_fixed(bitmap', i)
          /\ (word_index(i) < TopBlock /\ word_index(i) >= bitmap'.len)
                 => ~is_fixed(bitmap', i)]_vars

C6_Witness ==
    /\ bcall.op = "resize"
    /\ bitmap.fixed # {}
    /\ \E i \in IdxInputs : is_fixed(bitmap, i) /\ word_index(i) + 1 < bitmap.len

---------------------------------------------------------------------------
(* Claims about the free-base search, checked under SpecBase *)

(* C3 as stated: find_base_for_64adjacent agrees with the brute-force scan *)
(* of the window: the lowest valid base when there is one, and the marker  *)
(* INVALID_IDX otherwise and only then.                                    *)
C3_LowestValidBaseOrInvalidOnlyThen ==
    bcall.op = "find_base_for_64adjacent" =>
        LET valid == ValidOffsets(bitmap, in_origin, in_labels)
        IN  IF valid # {}
            THEN /\ bcall.ret = WindowBase(in_origin, Lowest(valid))
                 /\ bcall.ret # INVALID_IDX
            ELSE bcall.ret = INVALID_IDX

(* C3 amended: find_base_for_64adjacent returns the lowest valid base of   *)
(* the window when the brute-force scan finds one and INVALID_IDX when it  *)
(* finds none; the value INVALID_IDX is also what it returns when the      *)
(* lowest valid base is 0xFFFFFFFF itself.                                 *)
C3_LowestValidBaseOrInvalid ==
    bcall.op = "find_base_for_64adjacent" =>
        LET valid == ValidOffsets(bitmap, in_origin, in_labels)
        IN  /\ valid # {} => bcall.ret = WindowBase(in_origin, Lowest(valid))
            /\ valid = {} => bcall.ret = INVALID_IDX
            /\ bcall.ret = INVALID_IDX
                   => (valid = {} \/ WindowBase(in_origin, Lowest(valid)) = INVALID_IDX)

C3_Witness ==
    /\ bcall.op = "find_base_for_64adjacent"
    /\ in_labels # <<>>
    /\ bcall.ret # INVALID_IDX
    /\ bcall.ret.lo % BITS > 1
    /\ bitmap.fixed # {}

(* C4: bit i of disabled_base_mask(base_front, L) is 0 exactly when slot   *)
(* (base_front + i) ^ l is vacant for every label l of L.                  *)
C4_MaskBitIsZeroIffAllChildrenVacant ==
    bcall.op = "disabled_base_mask" =>
        \A i \in BitPos :
            (i \notin bcall.ret) <=> ValidBase(bitmap, WindowBase(in_origin, i), in_labels)

(* the expected bases of tests::test_find_base_for_64adjacent *)
C4_Witness ==
    /\ bcall.op = "disabled_base_mask"
    /\ bitmap = TestBitmap
    /\ in_labels = TestLabels
    /\ in_origin = U32(0, 0)
    /\ BitPos \ bcall.ret = {6, 14, 37, 45, 51, 57}

(* C10: a base returned for a non-empty label set places every child below *)
(* 2^31.                                                                   *)
C10_ChildrenBelowTopBit ==
    (bcall.op = "find_base_for_64adjacent" /\ in_labels # <<>> /\ bcall.ret # INVALID_IDX)
        => \A k \in 1 .. Len(in_labels) : U32Xor(bcall.ret, in_labels[k]).hi = 0

C10_Witness ==
    /\ bcall.op = "find_base_for_64adjacent"
    /\ in_labels # <<>>
    /\ bcall.ret # INVALID_IDX
    /\ bcall.ret.hi = 1
    /\ word_index(U32Xor(bcall.ret, in_labels[1])) >= bitmap.len

---------------------------------------------------------------------------
(* Claims about construction and queries, checked under SpecTrie *)

(* the value stored with key, as a set (empty when key is no key) *)
ValuesOf(records, key) == {records[k][2] : k \in {j \in 1 .. Len(records) : records[j][1] = key}}

(* C1: exact_match answers Some(value) for every key of a strictly         *)
(* ascending, non-empty input of non-empty keys, and None for every other  *)
(* string.                                                                 *)
C1_ExactMatchRoundTrip ==
    (built.ok /\ tcall.op = "exact_match") =>
        IF ValuesOf(in_records, tcall.arg) # {}
        THEN tcall.ret.tag = "Some" /\ ValuesOf(in_records, tcall.arg) = {tcall.ret.val}
        ELSE tcall.ret = None

(* a key that is a proper prefix of another key is found *)
C1_Witness ==
    /\ built.ok
    /\ tcall.op = "exact_match"
    /\ tcall.ret.tag = "Some"
    /\ \E k \in 1 .. Len(in_records) :
          /\ Len(in_records[k][1]) > Len(tcall.arg)
          /\ SubSeq(in_records[k][1], 1, Len(tcall.arg)) = tcall.arg

(* the pairs a brute-force comparison finds for the keys of length n that  *)
(* occur at offset i of the mapped text                                    *)
OccursAt(t, key, txt, i) ==
    /\ i + Len(key) <= Len(txt)
    /\ \A j \in 1 .. Len(key) : txt[i + j] = Some(t.mapper[key[j]])

RECURSIVE BruteForce(_, _, _, _, _)
BruteForce(t, records, txt, i, n) ==
    IF i >= Len(txt) THEN <<>>
    ELSE IF i + n > Len(txt) THEN BruteForce(t, records, txt, i + 1, 1)
    ELSE (LET hit == {k \in 1 .. Len(records) :
                         Len(records[k][1]) = n /\ OccursAt(t, records[k][1], txt, i)}
          IN  IF hit = {} THEN <<>>
              ELSE <<<<records[CHOOSE k \in hit : TRUE][2], i + n>>>>)
         \o BruteForce(t, records, txt, i, n + 1)

(* C2: when the scan of a text is over, the pairs collected from the       *)
(* searchers of all start offsets are the brute-force occurrences, each    *)
(* once, in the order of the offsets.                                      *)
C2_ScanEqualsBruteForce ==
    sc_phase = "done" => matches = BruteForce(built.trie, in_records, sc_text, 0, 1)

(* two keys match at one offset and a third at a later one *)
C2_Witness ==
    /\ sc_phase = "done"
    /\ Len(matches) >= 3
    /\ matches[1][2] < matches[2][2]
    /\ \E k \in 1 .. Len(sc_text) : sc_text[k] = None

(* the defects of an input *)
Defects(keys) ==
    {e \in {"EmptyInput", "EmptyKey", "DuplicateKey", "UnsortedInput"} :
        \/ e = "EmptyInput" /\ keys = <<>>
        \/ e = "EmptyKey" /\ \E k \in 1 .. Len(keys) : keys[k] = <<>>
        \/ e = "DuplicateKey" /\ \E k \in 2 .. Len(keys) : keys[k] = keys[k - 1]
        \/ e = "UnsortedInput" /\ \E k \in 2 .. Len(keys) : KeyLess(keys[k], keys[k - 1])}

(* C7: the constructor fails, with the error of a defect of the input and  *)
(* without a Node Table, whenever the input is empty, has an empty key,    *)
(* two adjacent equal keys or a key less than its predecessor; it          *)
(* succeeds on every other input.                                          *)
C7_ConstructionFailsExactlyOnDefects ==
    built # NotBuilt =>
        IF Defects(Keys(in_records)) # {}
        THEN /\ ~built.ok
             /\ built.err \in Defects(Keys(in_records))
             /\ built.trie = NoTrie
        ELSE /\ built.ok
             /\ built.err = "Ok"
             /\ Cardinality(DOMAIN built.trie.nodes) >= 1 + Len(in_records)

C7_Witness ==
    /\ ~built.ok
    /\ built.err = "UnsortedInput"
    /\ in_api = "from_keys"
    /\ Len(in_records) = MaxKeys
    /\ Defects(Keys(in_records)) = {"UnsortedInput"}

Exhausted ==
    \/ last.tag = "None"
    \/ last.tag = "Some" /\ is_leaf(built.trie, searcher.node_idx)

(* C9: once next has returned None or yielded at a leaf, every later call  *)
(* on the same searcher returns None; after a match at a has-leaf node the *)
(* searcher stays at that node and position, and the ends of the matches   *)
(* of one searcher increase strictly within 1 .. len(text).                *)
C9_SearcherIsAbsorbing ==
    /\ [](last.tag = "Some" =>
            /\ last.val.end \in 1 .. Len(searcher.text)
            /\ IF is_leaf(built.trie, searcher.node_idx)
               THEN searcher.text_pos = Len(searcher.text)
               ELSE /\ has_leaf(built.trie, searcher.node_idx)
                    /\ searcher.text_pos = last.val.end)
    /\ [][(sc_phase = "scanning" /\ sc_phase' = "scanning" /\ sc_i' = sc_i) =>
            /\ Exhausted => last'.tag = "None"
            /\ (last.tag = "Some" /\ last'.tag = "Some") => last'.val.end > last.val.end]_vars

(* a searcher has yielded at a has-leaf node and then at a later node *)
C9_Witness ==
    /\ sc_phase = "scanning"
    /\ last.tag = "Some"
    /\ last.val.end > 1
    /\ Len(matches) >= 2
    /\ matches[Len(matches) - 1][2] < matches[Len(matches)][2]
    /\ matches[Len(matches) - 1][2] > sc_i
    /\ ~is_leaf(built.trie, searcher.node_idx)

===========================================================================
